---- MODULE Spec2Model ----
(***************************************************************************)
(* Model of the Vim-navigation challenge engine of the typing-practice     *)
(* backend: generate_vim_challenge in Backend/routes/typing.py.            *)
(*                                                                         *)
(* A request hands the engine a target_count; the external generator       *)
(* answers with a payload (JSON text).  The engine parses it, validates    *)
(* the candidate targets against the snippet, trims, gap-fills from the    *)
(* non-whitespace positions and returns a challenge or None.               *)
(***************************************************************************)
EXTENDS Integers, Sequences, FiniteSets, TLC

(***************************************************************************)
(* Bounds of the model.                                                    *)
(***************************************************************************)
\* longest 'code' string the generator returns, in characters
MaxCodeLen == 3
\* longest 'targets' array the generator returns
MaxCands == 4
\* largest target_count a call is made with (the route allows up to 10)
MaxAsked == 4

(***************************************************************************)
(* Program constants.                                                      *)
(***************************************************************************)
\* "if len(validated_targets) < 2"
MIN_VALID_TARGETS == 2
\* "target_count = max(3, min(10, target_count))"
MIN_TARGET_COUNT == 3
MAX_TARGET_COUNT == 10

Min(a, b) == IF a < b THEN a ELSE b

\* Characters of a snippet: a visible character, a blank and the newline.
Chars == {"x", " ", "\n"}

\* str.isspace() on one character
IsSpace(ch) == ch \in {" ", "\n"}

(***************************************************************************)
(* JSON values of the payload.  A scalar carries its JSON type, so that a  *)
(* candidate whose line is not a number is distinguishable from an int.    *)
(***************************************************************************)
JInt(n) == [t |-> "int", v |-> n]
JStr(s) == [t |-> "str", s |-> s]

\* dict.get(key, default) on a JSON object modelled as a record
Get(obj, key, default) == IF key \in DOMAIN obj THEN obj[key] ELSE default

\* the return value None
None == [kind |-> "None"]

(***************************************************************************)
(* str.split('\n'): the lines of the code, each a sequence of characters.  *)
(***************************************************************************)
RECURSIVE SplitFrom(_, _, _)
SplitFrom(code, i, cur) ==
    IF i > Len(code) THEN <<cur>>
    ELSE IF code[i] = "\n" THEN <<cur>> \o SplitFrom(code, i + 1, <<>>)
    ELSE SplitFrom(code, i + 1, Append(cur, code[i]))

SplitLines(code) == SplitFrom(code, 1, <<>>)

(***************************************************************************)
(* The validation loop (for target in result['targets']).  A step either   *)
(* raises (the except clause turns that into None), drops the candidate or *)
(* appends a target.  Python indices are 0-based, sequences here 1-based.  *)
(***************************************************************************)
\* target.get(...) raises AttributeError on an entry that is not a mapping;
\* "0 <= line" raises TypeError when line is not a number, and "0 <= col"
\* likewise, but col is compared only once the line is in range.
CandidateRaises(target, code_lines) ==
    \/ target.json # "object"
    \/ Get(target, "line", JInt(0)).t # "int"
    \/ /\ Get(target, "line", JInt(0)).v >= 0
       /\ Get(target, "line", JInt(0)).v < Len(code_lines)
       /\ Get(target, "col", JInt(0)).t # "int"

\* InRange with an off-by-one in the column test (col <= line_len)
InRangeColOffByOne(target, code_lines) ==
    LET line == Get(target, "line", JInt(0)).v
        col == Get(target, "col", JInt(0)).v
    IN  /\ 0 <= line /\ line < Len(code_lines)
        /\ 0 <= col /\ col <= Len(code_lines[line + 1])

\* "if 0 <= line < len(code_lines)" and "if 0 <= col < line_len"
InRange(target, code_lines) ==
    LET line == Get(target, "line", JInt(0)).v
        col == Get(target, "col", JInt(0)).v
    IN  /\ 0 <= line /\ line < Len(code_lines)
        /\ 0 <= col /\ col < Len(code_lines[line + 1])

MakeTarget(target) ==
    [position |-> [line |-> Get(target, "line", JInt(0)).v,
                   col |-> Get(target, "col", JInt(0)).v],
     optimal_keys |-> Get(target, "optimal_keys", ""),
     description |-> Get(target, "description", ""),
     completed |-> FALSE]

RECURSIVE ValidateFrom(_, _, _, _)
ValidateFrom(targets, code_lines, i, acc) ==
    IF i > Len(targets) THEN [raised |-> FALSE, targets |-> acc]
    ELSE IF CandidateRaises(targets[i], code_lines)
         THEN [raised |-> TRUE, targets |-> acc]
    ELSE IF InRange(targets[i], code_lines)
         THEN ValidateFrom(targets, code_lines, i + 1,
                           Append(acc, MakeTarget(targets[i])))
    ELSE ValidateFrom(targets, code_lines, i + 1, acc)

ValidateTargets(targets, code_lines) == ValidateFrom(targets, code_lines, 1, <<>>)

(***************************************************************************)
(* Gap filling.                                                            *)
(***************************************************************************)
\* the coordinates of a line from column c on, whitespace included
LinePositionsKeepsBlanks(line, line_idx, c) ==
    [k \in 1..(Len(line) - c + 1) |-> <<line_idx, c + k - 2>>]

\* all_positions: the non-whitespace coordinates, row-major (0-based)
RECURSIVE LinePositions(_, _, _)
LinePositions(line, line_idx, c) ==
    IF c > Len(line) THEN <<>>
    ELSE (IF IsSpace(line[c]) THEN <<>> ELSE << <<line_idx, c - 1>> >>)
         \o LinePositions(line, line_idx, c + 1)

RECURSIVE PositionsFrom(_, _)
PositionsFrom(code_lines, l) ==
    IF l > Len(code_lines) THEN <<>>
    ELSE LinePositions(code_lines[l], l - 1, 1) \o PositionsFrom(code_lines, l + 1)

AllPositions(code_lines) == PositionsFrom(code_lines, 1)

\* existing = {(t['position']['line'], t['position']['col']) for t in validated_targets}
Existing(validated_targets) ==
    {<<validated_targets[i].position.line, validated_targets[i].position.col>> :
        i \in 1..Len(validated_targets)}

\* Available without the removal of the positions already used
AvailableKeepsExisting(code_lines, validated_targets) == AllPositions(code_lines)

\* available = [p for p in all_positions if p not in existing]
Available(code_lines, validated_targets) ==
    SelectSeq(AllPositions(code_lines),
              LAMBDA p : p \notin Existing(validated_targets))

\* random.shuffle(available): every ordering of the list is a possible outcome
RECURSIVE Shuffles(_)
Shuffles(s) ==
    IF Len(s) = 0 THEN {<<>>}
    ELSE UNION {{<<s[i]>> \o rest :
                    rest \in Shuffles(SubSeq(s, 1, i - 1) \o SubSeq(s, i + 1, Len(s)))} :
                i \in 1..Len(s)}

SyntheticTarget(p) ==
    [position |-> [line |-> p[1], col |-> p[2]],
     optimal_keys |-> "",
     description |-> "Navigate to this position",
     completed |-> FALSE]

\* FillLoop stopping one target short of the count
RECURSIVE FillLoopStopsEarly(_, _, _)
FillLoopStopsEarly(validated_targets, available, count) ==
    IF Len(validated_targets) < count - 1 /\ Len(available) > 0
    THEN FillLoopStopsEarly(
            Append(validated_targets, SyntheticTarget(available[Len(available)])),
            SubSeq(available, 1, Len(available) - 1), count)
    ELSE validated_targets

\* while len(validated_targets) < target_count and available: available.pop()
RECURSIVE FillLoop(_, _, _)
FillLoop(validated_targets, available, count) ==
    IF Len(validated_targets) < count /\ Len(available) > 0
    THEN FillLoop(Append(validated_targets, SyntheticTarget(available[Len(available)])),
                  SubSeq(available, 1, Len(available) - 1), count)
    ELSE validated_targets

\* Trim keeping the last count targets instead of the first
TrimKeepsLast(validated_targets, count) ==
    IF Len(validated_targets) > count
    THEN SubSeq(validated_targets, Len(validated_targets) - count + 1,
                Len(validated_targets))
    ELSE validated_targets

\* the floor of line 145 removed
TooFewValidNever(validated_targets) == FALSE

\* the floor of line 145 lowered to one target
TooFewValidBelowOne(validated_targets) == Len(validated_targets) < 1

\* "if len(validated_targets) < 2: return None"
TooFewValid(validated_targets) == Len(validated_targets) < MIN_VALID_TARGETS

\* "if len(validated_targets) > target_count: validated_targets[:target_count]"
Trim(validated_targets, count) ==
    IF Len(validated_targets) > count
    THEN SubSeq(validated_targets, 1, count)
    ELSE validated_targets

\* The final target lists the code can produce from the validated targets.
FinalTargets(validated_targets, code_lines, count) ==
    LET trimmed == Trim(validated_targets, count)
    IN  IF Len(trimmed) < count
        THEN {FillLoop(trimmed, shuffled, count) :
                shuffled \in Shuffles(Available(code_lines, trimmed))}
        ELSE {trimmed}

(***************************************************************************)
(* The payloads the external generator may answer with.                    *)
(***************************************************************************)
RECURSIVE SeqsUpTo(_, _)
SeqsUpTo(S, n) ==
    IF n = 0 THEN {<<>>}
    ELSE LET shorter == SeqsUpTo(S, n - 1)
         IN  shorter \cup {Append(s, x) : s \in {t \in shorter : Len(t) = n - 1}, x \in S}

Codes == SeqsUpTo(Chars, MaxCodeLen)

\* The candidates the generator answers with.  Three lie on the first two
\* lines and columns (in range or not, on a blank or not, depending on the
\* code): one without 'line' and 'col' (both default to 0) and without a
\* description, one with every key, one without optimal_keys.
GridCandidates ==
    {[json |-> "object", optimal_keys |-> "gg"],
     [json |-> "object", line |-> JInt(0), col |-> JInt(1),
      optimal_keys |-> "l", description |-> "Move right"],
     [json |-> "object", line |-> JInt(1), col |-> JInt(0), description |-> "Move down"]}

\* candidates with a negative coordinate, and malformed ones: an entry that
\* is a string instead of an object, and an object whose line is a string
OddCandidates ==
    {[json |-> "object", line |-> JInt(-1), col |-> JInt(0),
      optimal_keys |-> "k", description |-> "Move up"],
     [json |-> "object", line |-> JInt(0), col |-> JInt(-1),
      optimal_keys |-> "h", description |-> "Move left"],
     [json |-> "object", line |-> JStr("1"), col |-> JInt(0),
      optimal_keys |-> "j", description |-> "Move down"],
     [json |-> "string"]}

Candidates == GridCandidates \cup OddCandidates

\* 'targets' arrays: up to MaxCands candidates, at most one of them odd
CandidateLists ==
    {t \in SeqsUpTo(Candidates, MaxCands) :
        Cardinality({i \in 1..Len(t) : t[i] \in OddCandidates}) <= 1}

\* what json.loads makes of the generator's answer when it is not an object
\* with both 'code' and 'targets': a parse error, or an object lacking a key
BadPayloads ==
    {[json |-> "invalid"]}
    \cup {[json |-> "object", code |-> c] : c \in Codes}
    \cup {[json |-> "object", targets |-> t] : t \in CandidateLists}

TargetCounts == MIN_TARGET_COUNT..Min(MAX_TARGET_COUNT, MaxAsked)

VARIABLES
    pc,             \* "idle": no call in progress; "returned": the call has returned
    target_count,   \* the target_count argument of the call
    payload,        \* the generator's answer as parsed by json.loads
    code_lines,     \* result['code'].split('\n')
    validated,      \* validated_targets when the validation loop ends (line 145)
    result,         \* the return value: None or the challenge
    api_key         \* TRUE iff OPENAI_API_KEY is set in the environment

\* the state of one POST /api/typing/vim-challenge request
VARIABLES
    request,          \* the JSON body: language and target_count as sent
    response,         \* the HTTP status and body the route answered with
    engine_calls,     \* calls of generate_vim_challenge made for the request
    generator_calls   \* calls of client.chat.completions.create made for it

engineVars == <<pc, target_count, payload, code_lines, validated, result>>

routeVars == <<request, response, engine_calls, generator_calls>>

\* the database and the requests of POST /result and GET /weaknesses
VARIABLES
    users,            \* mongo.db.users: user id -> the counters of the document
    typing_results,   \* mongo.db.typing_results, in insertion order
    store_response,   \* the last response of /result or /weaknesses
    submissions       \* the /result requests in progress, one per worker

storeVars == <<users, typing_results, store_response, submissions>>

\* one POST /api/typing/generate-practice-text request
VARIABLES
    practice_pc,        \* "idle", "polling" (in the poll loop) or "answered"
    attempt,            \* the polls of the run status made so far
    last_poll,          \* what the latest poll returned
    practice_response   \* the response of the route

practiceVars == <<practice_pc, attempt, last_poll, practice_response>>

\* the registered accounts and the POST /api/auth/register requests
VARIABLES
    accounts,        \* mongo.db.users as register sees it, in insertion order
    registrations,   \* the register requests in progress, one per worker
    unique_index     \* TRUE iff the unique indexes on username and email exist

authVars == <<accounts, registrations, unique_index>>

sideVars == <<practiceVars, authVars>>

vars == <<pc, target_count, payload, code_lines, validated, result, api_key,
          request, response, engine_calls, generator_calls,
          users, typing_results, store_response, submissions,
          practice_pc, attempt, last_poll, practice_response,
          accounts, registrations, unique_index>>

\* requests of one route served at the same time
MaxWorkers == 2
Workers == 1..MaxWorkers

\* a worker between two requests
IdleSubmission == [pc |-> "idle"]

\* the user ids of the stored user documents
UserIds == {"u1", "u2"}

\* a document field that holds no keys yet
EmptyDoc == [c \in {} |-> 0]

\* the users as registration leaves them: tests_completed 0, no weakness_counts
StoreInit ==
    /\ users = [u \in UserIds |-> [weakness_counts |-> EmptyDoc, tests_completed |-> 0]]
    /\ typing_results = <<>>
    /\ store_response = [status |-> 0]
    /\ submissions = [w \in Workers |-> IdleSubmission]

\* no request yet
NoRequest == [language |-> "", target_count |-> 0]

NoResponse == [status |-> 0]

RouteInit ==
    /\ request = NoRequest
    /\ response = NoResponse
    /\ engine_calls = 0
    /\ generator_calls = 0

\* no practice-text request yet
PracticeInit ==
    /\ practice_pc = "idle"
    /\ attempt = 0
    /\ last_poll = [kind |-> "none"]
    /\ practice_response = [status |-> 0]

\* a register worker between two requests
IdleRegistration == [pc |-> "idle"]

\* no account and no register request yet
AccountsInit ==
    /\ accounts = <<>>
    /\ registrations = [w \in Workers |-> IdleRegistration]

\* the state of a call of generate_vim_challenge before it starts
EngineInit ==
    /\ pc = "idle"
    /\ target_count = MIN_TARGET_COUNT
    /\ payload = [json |-> "none"]
    /\ code_lines = <<>>
    /\ validated = <<>>
    /\ result = None

\* what the direct calls of generate_vim_challenge leave alone
notEngineVars == <<routeVars, storeVars, sideVars>>

\* the indexes are there, as "python app.py" and "flask init-db" leave them
Init ==
    /\ RouteInit
    /\ StoreInit
    /\ PracticeInit
    /\ AccountsInit
    /\ unique_index = TRUE
    /\ api_key \in BOOLEAN
    /\ EngineInit

Challenge(code, lines, targets) ==
    [kind |-> "challenge", code |-> code, lines |-> lines,
     targets |-> targets, ai_generated |-> TRUE]

\* generate_vim_challenge(language, target_count, weaknesses) without a key:
\* returns None before the generator is called
GenerateNoKey ==
    /\ pc = "idle"
    /\ ~api_key
    /\ \E count \in TargetCounts : target_count' = count
    /\ payload' = [json |-> "none"]
    /\ code_lines' = <<>>
    /\ validated' = <<>>
    /\ result' = None
    /\ pc' = "returned"
    /\ UNCHANGED <<api_key, notEngineVars>>

\* the generator's answer does not parse, or lacks 'code' or 'targets'
GenerateBadPayload ==
    /\ pc = "idle"
    /\ api_key
    /\ \E count \in TargetCounts, answer \in BadPayloads :
        /\ \/ answer.json # "object"
           \/ "code" \notin DOMAIN answer
           \/ "targets" \notin DOMAIN answer
        /\ target_count' = count
        /\ payload' = answer
    /\ code_lines' = <<>>
    /\ validated' = <<>>
    /\ result' = None
    /\ pc' = "returned"
    /\ UNCHANGED <<api_key, notEngineVars>>

\* the answer has 'code' and 'targets': validate, trim, fill, return
GenerateFromPayload ==
    /\ pc = "idle"
    /\ api_key
    /\ \E count \in TargetCounts, c \in Codes, t \in CandidateLists :
        /\ target_count' = count
        /\ payload' = [json |-> "object", code |-> c, targets |-> t]
        /\ LET lines == SplitLines(c)
               v == ValidateTargets(t, lines)
           IN  /\ code_lines' = lines
               /\ validated' = v.targets
               /\ IF v.raised \/ TooFewValid(v.targets)
                  THEN result' = None
                  ELSE \E final \in FinalTargets(v.targets, lines, count) :
                          result' = Challenge(c, lines, final)
    /\ pc' = "returned"
    /\ UNCHANGED <<api_key, notEngineVars>>

\* the caller has taken the return value; the next call may start
NextCall ==
    /\ pc = "returned"
    /\ pc' = "idle"
    /\ target_count' = MIN_TARGET_COUNT
    /\ payload' = [json |-> "none"]
    /\ code_lines' = <<>>
    /\ validated' = <<>>
    /\ result' = None
    /\ UNCHANGED <<api_key, notEngineVars>>

Next == GenerateNoKey \/ GenerateBadPayload \/ GenerateFromPayload \/ NextCall

Spec == Init /\ [][Next]_vars

(***************************************************************************)
(* The route POST /api/typing/vim-challenge (get_vim_challenge): the key   *)
(* check, the language check, the clamp of target_count, one call of       *)
(* generate_vim_challenge and the translation of its result to a response. *)
(***************************************************************************)
SUPPORTED_LANGUAGES == {"python", "javascript", "typescript", "rust", "go", "c", "cpp"}

\* data.get('target_count', 5)
DEFAULT_TARGET_COUNT == 5

Max(a, b) == IF a > b THEN a ELSE b

\* the clamp left out: the count is passed on as sent
ClampLeftOut(n) == n

\* "target_count = max(3, min(10, target_count))"
Clamp(n) == Max(MIN_TARGET_COUNT, Min(MAX_TARGET_COUNT, n))

\* the route's key check left out
RouteConfiguredAlways(key) == TRUE

\* "if not get_openai_key()" in the route
RouteConfigured(key) == key

\* the generator called again after a failed call
AttemptsRetryOnFailure(answer) == IF answer.json = "call_failed" THEN 2 ELSE 1

\* client.chat.completions.create is called once, in straight-line code
Attempts(answer) == 1

\* the request bodies: a supported and an unsupported language; target_count
\* absent, below, at and above the ends of the supported range
Requests ==
    {[language |-> l] : l \in {"python", "cobol"}}
    \cup {[language |-> l, target_count |-> n] :
            l \in {"python", "cobol"},
            n \in {MIN_TARGET_COUNT - 1, MIN_TARGET_COUNT, MIN_TARGET_COUNT + 1,
                   MAX_TARGET_COUNT, MAX_TARGET_COUNT + 1}}

\* what the generator call yields for the route: the call raises (network
\* failure, timeout), the content does not parse, an object lacks 'code' or
\* 'targets', or a full object whose candidates are well-formed
RouteAnswers ==
    {[json |-> "call_failed"],
     [json |-> "invalid"],
     [json |-> "object", code |-> <<"x">>],
     [json |-> "object", targets |-> <<>>]}
    \cup {[json |-> "object", code |-> c, targets |-> t] :
            c \in Codes, t \in SeqsUpTo(GridCandidates, MaxCands)}

\* no challenge: the engine returned before, or failed in, parsing
Failed(answer) ==
    [payload |-> answer, code_lines |-> <<>>, validated |-> <<>>, result |-> None]

\* generate_vim_challenge(language, count, weaknesses) when the generator
\* yields answer: the possible values of its locals and of its return value
GenerateOutcomes(count, answer) ==
    IF \/ answer.json # "object"
       \/ "code" \notin DOMAIN answer
       \/ "targets" \notin DOMAIN answer
    THEN {Failed(answer)}
    ELSE LET lines == SplitLines(answer.code)
             v == ValidateTargets(answer.targets, lines)
         IN  IF v.raised \/ TooFewValid(v.targets)
             THEN {[payload |-> answer, code_lines |-> lines,
                    validated |-> v.targets, result |-> None]}
             ELSE {[payload |-> answer, code_lines |-> lines,
                    validated |-> v.targets,
                    result |-> Challenge(answer.code, lines, final)] :
                        final \in FinalTargets(v.targets, lines, count)}

ErrorResponse(status, message) == [status |-> status, body |-> [error |-> message]]

\* the route answering 200 whatever generate_vim_challenge returned
RouteResponseUnchecked(language, challenge) ==
    [status |-> 200,
     body |-> [language |-> language,
               targets |-> IF challenge = None THEN <<>> ELSE challenge.targets,
               ai_generated |-> TRUE]]

\* "if not challenge: return 500" and the 200 response
RouteResponse(language, challenge) ==
    IF challenge = None
    THEN ErrorResponse(500, "Failed to generate Vim challenge")
    ELSE [status |-> 200,
          body |-> [language |-> language,
                    code |-> challenge.code,
                    lines |-> challenge.lines,
                    targets |-> challenge.targets,
                    line_count |-> Len(challenge.lines),
                    ai_generated |-> TRUE]]

\* the route without a key: 503, nothing else runs
RouteNotConfigured ==
    /\ response = NoResponse
    /\ ~RouteConfigured(api_key)
    /\ \E req \in Requests : request' = req
    /\ response' = ErrorResponse(503, "AI generation not configured")
    /\ UNCHANGED <<engineVars, api_key, engine_calls, generator_calls, storeVars, sideVars>>

\* the route with a key and a language outside SUPPORTED_LANGUAGES: 400
RouteUnsupportedLanguage ==
    /\ response = NoResponse
    /\ RouteConfigured(api_key)
    /\ \E req \in Requests :
        /\ req.language \notin SUPPORTED_LANGUAGES
        /\ request' = req
    /\ response' = ErrorResponse(400, "Unsupported language")
    /\ UNCHANGED <<engineVars, api_key, engine_calls, generator_calls, storeVars, sideVars>>

\* the route with a key and a supported language: clamp, generate, answer
RouteGenerate ==
    /\ response = NoResponse
    /\ RouteConfigured(api_key)
    /\ \E req \in Requests :
        /\ req.language \in SUPPORTED_LANGUAGES
        /\ request' = req
        /\ LET count == Clamp(Get(req, "target_count", DEFAULT_TARGET_COUNT))
           IN  /\ target_count' = count
               /\ engine_calls' = 1
               /\ IF ~api_key
                  THEN \* lines 26-29: None before the generator is called
                       /\ generator_calls' = 0
                       /\ payload' = [json |-> "none"]
                       /\ code_lines' = <<>>
                       /\ validated' = <<>>
                       /\ result' = None
                  ELSE \E answer \in RouteAnswers :
                        /\ generator_calls' = Attempts(answer)
                        /\ \E out \in GenerateOutcomes(count, answer) :
                            /\ payload' = out.payload
                            /\ code_lines' = out.code_lines
                            /\ validated' = out.validated
                            /\ result' = out.result
        /\ response' = RouteResponse(req.language, result')
    /\ pc' = "returned"
    /\ UNCHANGED <<api_key, storeVars, sideVars>>

\* the response is sent; the next request may come
RouteNext ==
    /\ response # NoResponse
    /\ request' = NoRequest
    /\ response' = NoResponse
    /\ engine_calls' = 0
    /\ generator_calls' = 0
    /\ pc' = "idle"
    /\ target_count' = MIN_TARGET_COUNT
    /\ payload' = [json |-> "none"]
    /\ code_lines' = <<>>
    /\ validated' = <<>>
    /\ result' = None
    /\ UNCHANGED <<api_key, storeVars, sideVars>>

NextRoute ==
    RouteNotConfigured \/ RouteUnsupportedLanguage \/ RouteGenerate \/ RouteNext

SpecRoute == Init /\ [][NextRoute]_vars

(***************************************************************************)
(* Vocabulary of the properties.                                           *)
(***************************************************************************)
Returned == pc = "returned"

IsChallenge == result.kind = "challenge"

\* the generator answered with an object holding 'code' and 'targets'
FullPayload ==
    /\ payload.json = "object"
    /\ "code" \in DOMAIN payload
    /\ "targets" \in DOMAIN payload

\* the coordinates of the snippet that hold a character that is not blank
NonBlank ==
    UNION {{<<l - 1, c - 1>> :
                c \in {k \in 1..Len(code_lines[l]) : ~IsSpace(code_lines[l][k])}} :
           l \in 1..Len(code_lines)}

PosOf(t) == <<t.position.line, t.position.col>>

\* a candidate that is an object whose line and col, when present, are integers
WellFormed(c) ==
    /\ c.json = "object"
    /\ ("line" \in DOMAIN c => c.line.t = "int")
    /\ ("col" \in DOMAIN c => c.col.t = "int")

AllWellFormed == \A i \in 1..Len(payload.targets) : WellFormed(payload.targets[i])

LineOf(c) == IF "line" \in DOMAIN c THEN c.line.v ELSE 0
ColOf(c) == IF "col" \in DOMAIN c THEN c.col.v ELSE 0

\* 0 <= line < lineCount and 0 <= col < length(line)
OnSnippet(c) ==
    /\ LineOf(c) \in 0..(Len(code_lines) - 1)
    /\ ColOf(c) \in 0..(Len(code_lines[LineOf(c) + 1]) - 1)

\* the indices of the well-formed candidates on the snippet, in input order
KeptIndices ==
    SelectSeq([i \in 1..Len(payload.targets) |-> i],
              LAMBDA i : WellFormed(payload.targets[i]) /\ OnSnippet(payload.targets[i]))

\* the target a kept candidate becomes
TargetOf(c) ==
    [position |-> [line |-> LineOf(c), col |-> ColOf(c)],
     optimal_keys |-> IF "optimal_keys" \in DOMAIN c THEN c.optimal_keys ELSE "",
     description |-> IF "description" \in DOMAIN c THEN c.description ELSE "",
     completed |-> FALSE]

C2_ExhaustedPoolFails ==
    (/\ Returned /\ FullPayload
     /\ \A i \in 1..Len(validated) :
            /\ PosOf(validated[i]) \in NonBlank
            /\ \A j \in 1..Len(validated) :
                    i # j => PosOf(validated[i]) # PosOf(validated[j])
     /\ Len(validated)
            + Cardinality(NonBlank \ {PosOf(validated[i]) : i \in 1..Len(validated)})
            < target_count)
        => result = None

\* C3: no returned challenge holds two targets at the same position.
C3_NoDuplicatePositions ==
    (Returned /\ IsChallenge)
        => \A i, j \in 1..Len(result.targets) :
                i # j => PosOf(result.targets[i]) # PosOf(result.targets[j])

\* C4: every target of a returned challenge sits on a non-blank character.
C4_TargetsOnNonBlank ==
    (Returned /\ IsChallenge)
        => \A i \in 1..Len(result.targets) : PosOf(result.targets[i]) \in NonBlank

C6_FloorOfTwoTargets ==
    /\ (/\ Returned /\ FullPayload /\ AllWellFormed
        /\ Len(KeptIndices) < 2
        /\ Len(KeptIndices)
            + Cardinality(NonBlank \ {PosOf(validated[i]) : i \in 1..Len(validated)})
            < target_count)
            => result = None
    /\ (Returned /\ IsChallenge) => Len(result.targets) >= 2

\* C6 witness: Scenario 3: a snippet of blanks only, no candidates, None
C6_Witness ==
    /\ Returned /\ FullPayload
    /\ payload.targets = <<>>
    /\ Len(payload.code) > 0
    /\ NonBlank = {}
    /\ result = None

\* C7: with well-formed candidates, the validated list is the candidates on
\* the snippet, in input order, each with its keys and description copied
\* ("" when absent) and completed = FALSE; dropping the others does not fail
\* the call.
C7_ValidatedAreCandidatesOnSnippet ==
    (Returned /\ FullPayload /\ AllWellFormed)
        => /\ Len(validated) = Len(KeptIndices)
           /\ \A k \in 1..Len(KeptIndices) :
                validated[k] = TargetOf(payload.targets[KeptIndices[k]])
           /\ Len(KeptIndices) >= 2 => IsChallenge

\* C7 witness: a candidate below range and one beyond it dropped, two kept,
\* one of them without description and one without optimal_keys
C7_Witness ==
    /\ Returned /\ FullPayload /\ AllWellFormed
    /\ \E i \in 1..Len(payload.targets) :
            LineOf(payload.targets[i]) < 0 \/ ColOf(payload.targets[i]) < 0
    /\ \E i \in 1..Len(payload.targets) :
            /\ LineOf(payload.targets[i]) >= 0 /\ ColOf(payload.targets[i]) >= 0
            /\ ~OnSnippet(payload.targets[i])
    /\ Len(validated) = 2
    /\ \E k \in 1..2 : validated[k].description = "" /\ validated[k].optimal_keys # ""
    /\ \E k \in 1..2 : validated[k].optimal_keys = "" /\ validated[k].description # ""
    /\ IsChallenge

\* C8: with at least target_count validated targets, the returned targets
\* are the first target_count of them, in order.
C8_FirstCountKept ==
    (Returned /\ FullPayload /\ AllWellFormed /\ Len(validated) >= target_count)
        => /\ IsChallenge
           /\ result.targets = SubSeq(validated, 1, target_count)

\* C8 witness: more validated targets than asked for, the last differing
\* from the first, and a challenge returned
C8_Witness ==
    /\ Returned /\ IsChallenge
    /\ Len(validated) > target_count
    /\ validated[Len(validated)] # validated[1]
    /\ Len(result.targets) = target_count

\* C9: with fewer than target_count validated targets, the challenge starts
\* with the validated targets unchanged; every later target is synthetic
\* (empty optimal_keys, the fixed description, completed = FALSE), on a
\* non-blank position that no earlier target of the list occupies.
C9_SyntheticTargetsAppended ==
    (Returned /\ IsChallenge /\ Len(validated) < target_count)
        => /\ Len(result.targets) >= Len(validated)
           /\ SubSeq(result.targets, 1, Len(validated)) = validated
           /\ \A i \in (Len(validated) + 1)..Len(result.targets) :
                /\ PosOf(result.targets[i]) \in NonBlank
                /\ \A j \in 1..(i - 1) :
                        PosOf(result.targets[j]) # PosOf(result.targets[i])
                /\ result.targets[i].optimal_keys = ""
                /\ result.targets[i].description = "Navigate to this position"
                /\ result.targets[i].completed = FALSE

\* C9 witness: Scenario 1: three candidates, the middle one out of range,
\* two kept, one synthetic target added
C9_Witness ==
    /\ Returned /\ IsChallenge
    /\ Len(payload.targets) = 3
    /\ KeptIndices = <<1, 3>>
    /\ Len(validated) = 2
    /\ Len(result.targets) = 3
    /\ target_count = 3

\* the candidates that are not well-formed
Malformed == {i \in 1..Len(payload.targets) : ~WellFormed(payload.targets[i])}

\* C10: one malformed candidate is dropped and the others are still used:
\* with at least 2 of them on the snippet the call returns a challenge whose
\* validated targets are those candidates.
C10_MalformedCandidateDropped ==
    (/\ Returned /\ FullPayload
     /\ Cardinality(Malformed) = 1
     /\ Len(KeptIndices) >= 2)
        => /\ IsChallenge
           /\ Len(validated) = Len(KeptIndices)

(***************************************************************************)
(* Properties of the route (checked under SpecRoute).                      *)
(***************************************************************************)
Responded == response # NoResponse

\* the fields of the 200 response
ChallengeBodyFields ==
    {"language", "code", "lines", "targets", "line_count", "ai_generated"}

\* C11: a payload that does not parse, or lacks 'code' or 'targets', makes
\* generate_vim_challenge return None, which the route reports as its 500
\* error; every response is either that of a whole challenge (all fields,
\* taken from the returned challenge) or an error.
C11_MalformedPayloadFails ==
    Responded
        => /\ (engine_calls = 1 /\ payload.json \in {"invalid", "object"} /\ ~FullPayload)
                => /\ result = None
                   /\ response = ErrorResponse(500, "Failed to generate Vim challenge")
           /\ response.status = 200
                => /\ IsChallenge
                   /\ DOMAIN response.body = ChallengeBodyFields
                   /\ response.body.code = payload.code
                   /\ response.body.lines = code_lines
                   /\ response.body.line_count = Len(code_lines)
                   /\ response.body.targets = result.targets
           /\ response.status # 200
                => /\ result = None
                   /\ DOMAIN response.body = {"error"}

\* C11 witness: the generator's object lacks 'code'; the route answered 500
C11_Witness ==
    /\ Responded
    /\ payload.json = "object"
    /\ "code" \notin DOMAIN payload
    /\ engine_calls = 1
    /\ result = None
    /\ response.status = 500

\* C12: without a key the request ends with the 503 error, and neither
\* generate_vim_challenge nor the generator is called for it.
C12_NotConfiguredShortCircuits ==
    (Responded /\ ~api_key)
        => /\ response.status = 503
           /\ engine_calls = 0
           /\ generator_calls = 0
           /\ pc = "idle"

\* C12 witness: a request that would otherwise be served (supported
\* language, count in range) answered 503 without a key
C12_Witness ==
    /\ Responded /\ ~api_key
    /\ request.language \in SUPPORTED_LANGUAGES
    /\ "target_count" \in DOMAIN request
    /\ request.target_count = MIN_TARGET_COUNT
    /\ response.status = 503

\* the request names a target_count outside 3..10
CountOutOfRange ==
    /\ "target_count" \in DOMAIN request
    /\ request.target_count \notin MIN_TARGET_COUNT..MAX_TARGET_COUNT

\* C13 as claimed: a target_count outside 3..10 is rejected with an error
\* before generation: no generator call, no challenge.
C13_OutOfRangeRejected ==
    (Responded /\ api_key /\ CountOutOfRange)
        => /\ response.status = 400
           /\ generator_calls = 0
           /\ result = None

\* C13 as amended: a target_count outside 3..10 is not rejected; with a key
\* and a supported language generate_vim_challenge is called once with the
\* nearest end of the range, and the response is that of the generation.
C13_OutOfRangeClamped ==
    (/\ Responded /\ api_key /\ CountOutOfRange
     /\ request.language \in SUPPORTED_LANGUAGES)
        => /\ engine_calls = 1
           /\ generator_calls = 1
           /\ target_count = (IF request.target_count < MIN_TARGET_COUNT
                              THEN MIN_TARGET_COUNT ELSE MAX_TARGET_COUNT)
           /\ response.status \in {200, 500}
           /\ response.status = 200 <=> IsChallenge

\* C13 witness: target_count 2 served with a challenge generated for 3
C13_Witness ==
    /\ Responded /\ api_key
    /\ "target_count" \in DOMAIN request
    /\ request.target_count = MIN_TARGET_COUNT - 1
    /\ target_count = MIN_TARGET_COUNT
    /\ response.status = 200
    /\ Len(response.body.targets) = MIN_TARGET_COUNT

MaxResults == 3

\* severity: 'high' if count > 10 else 'medium' if count > 5 else 'low'
HIGH_ABOVE == 10
MEDIUM_ABOVE == 5
\* "if len(recommendations) < 3"
MAX_RECOMMENDATIONS == 3

\* the keys of weakness_descriptions
TAXONOMY ==
    {"slow_basic_movement", "missing_word_motions", "missing_find_motions",
     "missing_line_motions", "missing_count_prefix", "missing_paragraph_motions",
     "missing_bracket_matching", "inefficient_path"}

\* weakness_descriptions[t]
WeaknessDescription(t) ==
    CASE t = "slow_basic_movement" ->
            [label |-> "Slow Basic Movement",
             tip |-> "Practice h/j/k/l until they become muscle memory",
             practice |-> "Try moving without looking at the keyboard"]
      [] t = "missing_word_motions" ->
            [label |-> "Missing Word Motions",
             tip |-> "Use 'w' to jump to next word, 'b' for previous, 'e' for end of word",
             practice |-> "Words are faster than multiple l/h presses"]
      [] t = "missing_find_motions" ->
            [label |-> "Missing Find Motions",
             tip |-> "Use 'f{char}' to jump directly to a character on the line",
             practice |-> "Try 'fa' to jump to the next 'a' character"]
      [] t = "missing_line_motions" ->
            [label |-> "Missing Line Motions",
             tip |-> "Use '0' for line start, '$' for end, '^' for first non-blank",
             practice |-> "These are essential for efficient code navigation"]
      [] t = "missing_count_prefix" ->
            [label |-> "Missing Count Prefixes",
             tip |-> "Use numbers before motions: '5j' moves 5 lines down",
             practice |-> "Counting is faster than repeating motions"]
      [] t = "missing_paragraph_motions" ->
            [label |-> "Missing Paragraph Motions",
             tip |-> "Use '{' and '}' to jump between blank lines/code blocks",
             practice |-> "Great for navigating between functions"]
      [] t = "missing_bracket_matching" ->
            [label |-> "Missing Bracket Matching",
             tip |-> "Use '%' to jump between matching brackets/parentheses",
             practice |-> "Essential for code with nested structures"]
      [] t = "inefficient_path" ->
            [label |-> "Inefficient Movement Path",
             tip |-> "Plan your movement before pressing keys",
             practice |-> "Look for the shortest path using available motions"]

\* required_fields of save_result
REQUIRED_FIELDS ==
    {"mode", "wpm", "raw_wpm", "accuracy", "correct_chars", "incorrect_chars",
     "test_duration"}

\* the 'weaknesses' dicts the clients send: none; one taxonomy category with
\* a count at or around the severity bands, zero or negative; two categories;
\* a category outside the taxonomy, alone or with a known one
Tallies ==
    {EmptyDoc,
     "missing_word_motions" :> 6,
     "missing_word_motions" :> 5,
     "missing_word_motions" :> 0,
     "missing_word_motions" :> (-1),
     ("missing_word_motions" :> 6) @@ ("slow_basic_movement" :> 6),
     "future_category" :> 2,
     ("missing_word_motions" :> 5) @@ ("future_category" :> 2)}

\* the bodies of POST /result: the required fields present, and a tally
SubmittedFields ==
    {REQUIRED_FIELDS, REQUIRED_FIELDS \ {"mode"}, REQUIRED_FIELDS \ {"test_duration"}}

\* the identities a token may carry: a stored user or a user no longer stored
Identities == UserIds \cup {"gone"}

\* the counters set to the submitted counts instead of raised by them
IncCountsSet(counts, tally) ==
    [c \in DOMAIN counts \cup DOMAIN tally |->
        IF c \in DOMAIN tally THEN tally[c] ELSE counts[c]]

\* {'$inc': {'weakness_counts.<k>': v, ...}}: an absent field counts as 0
IncCounts(counts, tally) ==
    [c \in DOMAIN counts \cup DOMAIN tally |->
        (IF c \in DOMAIN counts THEN counts[c] ELSE 0)
        + (IF c \in DOMAIN tally THEN tally[c] ELSE 0)]

\* the update computed from the document read at the start of the request
\* and written back whole
UpdateUserFromRead(current, read, weaknesses) ==
    IF weaknesses # EmptyDoc
    THEN [weakness_counts |-> IncCounts(read.weakness_counts, weaknesses),
          tests_completed |-> read.tests_completed + 1]
    ELSE [current EXCEPT !.tests_completed = read.tests_completed + 1]

\* the update dropping the counters of the categories not submitted
UpdateUserOverwrite(current, read, weaknesses) ==
    IF weaknesses # EmptyDoc
    THEN [weakness_counts |-> IncCounts(
                [c \in DOMAIN current.weakness_counts \cap DOMAIN weaknesses |->
                    current.weakness_counts[c]], weaknesses),
          tests_completed |-> current.tests_completed + 1]
    ELSE [current EXCEPT !.tests_completed = @ + 1]

\* the update without the branch for a submission that has no tally
UpdateUserSkipsCount(current, read, weaknesses) ==
    IF weaknesses # EmptyDoc
    THEN [weakness_counts |-> IncCounts(current.weakness_counts, weaknesses),
          tests_completed |-> current.tests_completed + 1]
    ELSE current

\* mongo.db.users.update_one({'_id': ...}, {'$inc': ...}) applied by the
\* database to the document as it is now; 'read' is the document find_one
\* returned at the start of the request, which the update does not use
UpdateUser(current, read, weaknesses) ==
    IF weaknesses # EmptyDoc
    THEN [weakness_counts |-> IncCounts(current.weakness_counts, weaknesses),
          tests_completed |-> current.tests_completed + 1]
    ELSE [current EXCEPT !.tests_completed = @ + 1]

\* the stored result document (the fields the counters depend on)
ResultDoc(user_id, weaknesses) == [user_id |-> user_id, weaknesses |-> weaknesses]

RECURSIVE SeqsOf(_)
SeqsOf(S) ==
    IF S = {} THEN {<<>>}
    ELSE UNION {{<<x>> \o rest : rest \in SeqsOf(S \ {x})} : x \in S}

\* sorted(weakness_counts.items(), key=count, reverse=True): the keys by
\* decreasing count; equal counts keep the order of the document's fields,
\* which the model leaves open
SortedWeaknesses(counts) ==
    {order \in SeqsOf(DOMAIN counts) :
        \A i \in 1..(Len(order) - 1) : counts[order[i]] >= counts[order[i + 1]]}

\* severity with the bands one too low
SeverityBandsShifted(count) ==
    IF count >= HIGH_ABOVE THEN "high"
    ELSE IF count >= MEDIUM_ABOVE THEN "medium"
    ELSE "low"

Severity(count) ==
    IF count > HIGH_ABOVE THEN "high"
    ELSE IF count > MEDIUM_ABOVE THEN "medium"
    ELSE "low"

\* one entry of weakness_details
WeaknessDetail(t, count) ==
    [type |-> t, count |-> count,
     label |-> WeaknessDescription(t).label,
     tip |-> WeaknessDescription(t).tip,
     practice |-> WeaknessDescription(t).practice,
     severity |-> Severity(count)]

\* "if count > 0 and weakness_type in weakness_descriptions"
Listed(t, count) == count > 0 /\ t \in TAXONOMY

\* the loop over sorted_weaknesses for one order of the keys
WeaknessDetails(counts, order) ==
    LET kept == SelectSeq(order, LAMBDA t : Listed(t, counts[t]))
    IN  [i \in 1..Len(kept) |-> WeaknessDetail(kept[i], counts[kept[i]])]

\* the 200 response of get_weaknesses (weakness part)
WeaknessReport(user_id, counts, order) ==
    LET details == WeaknessDetails(counts, order)
    IN  [status |-> 200,
         user_id |-> user_id,
         weaknesses |-> details,
         recommendations |->
            [i \in 1..Min(MAX_RECOMMENDATIONS, Len(details)) |-> details[i].tip],
         weakness_counts |-> counts]

\* save_result: the token's user is not stored: 404, nothing written
SaveResultNoUser ==
    /\ \E u \in Identities \ DOMAIN users, t \in Tallies :
        store_response' = [status |-> 404, user_id |-> u]
    /\ UNCHANGED <<users, typing_results, submissions>>
    /\ UNCHANGED <<engineVars, api_key, routeVars, sideVars>>

\* save_result: a required field is missing: 400, nothing written
SaveResultMissingField ==
    /\ \E u \in DOMAIN users, fields \in SubmittedFields, t \in Tallies :
        /\ REQUIRED_FIELDS \ fields # {}
        /\ store_response' = [status |-> 400, user_id |-> u]
    /\ UNCHANGED <<users, typing_results, submissions>>
    /\ UNCHANGED <<engineVars, api_key, routeVars, sideVars>>

\* the writes and the answer of save_result for a stored user and a body
\* with the required fields: insert_one, update_one, 201
AcceptedSubmission(u, t) ==
    /\ typing_results' = Append(typing_results, ResultDoc(u, t))
    /\ users' = [users EXCEPT ![u] = UpdateUser(users[u], users[u], t)]
    /\ store_response' = [status |-> 201, user_id |-> u]

\* save_result from find_one to the 201 response, with no other request
\* running in between
SaveResult ==
    /\ Len(typing_results) < MaxResults
    /\ \E u \in DOMAIN users, fields \in SubmittedFields, t \in Tallies :
        /\ REQUIRED_FIELDS \ fields = {}
        /\ AcceptedSubmission(u, t)
    /\ UNCHANGED submissions
    /\ UNCHANGED <<engineVars, api_key, routeVars, sideVars>>

\* get_weaknesses for a user that is not stored: 404
GetWeaknessesNoUser ==
    /\ \E u \in Identities \ DOMAIN users :
        store_response' = [status |-> 404, user_id |-> u]
    /\ UNCHANGED <<users, typing_results, submissions>>
    /\ UNCHANGED <<engineVars, api_key, routeVars, sideVars>>

\* get_weaknesses for a stored user
GetWeaknesses ==
    /\ \E u \in DOMAIN users :
        \E order \in SortedWeaknesses(users[u].weakness_counts) :
            store_response' = WeaknessReport(u, users[u].weakness_counts, order)
    /\ UNCHANGED <<users, typing_results, submissions>>
    /\ UNCHANGED <<engineVars, api_key, routeVars, sideVars>>

NextStore ==
    \/ SaveResultNoUser
    \/ SaveResultMissingField
    \/ SaveResult
    \/ GetWeaknessesNoUser
    \/ GetWeaknesses

\* the key plays no part in these routes
InitStore == Init /\ api_key

SpecStore == InitStore /\ [][NextStore]_vars

(***************************************************************************)
(* Properties of the stored weakness counters and of the weakness report.  *)
(***************************************************************************)
\* the cumulative counter of a category; a field never written counts as 0
Counter(doc, c) == IF c \in DOMAIN doc.weakness_counts THEN doc.weakness_counts[c] ELSE 0

\* the step stored one more result
Submitted == Len(typing_results') = Len(typing_results) + 1

\* C15: a successful submission with tally T adds T[c] to the submitting
\* user's counter of every category c of T, leaves that user's counters of
\* the categories outside T as they were (present or absent), and leaves the
\* counters of every other user as they were.
C15_SubmissionAddsTally ==
    [][Submitted =>
        LET last == typing_results'[Len(typing_results')]
            u == last.user_id
            T == last.weaknesses
        IN  /\ store_response'.status = 201
            /\ \A c \in DOMAIN T :
                /\ c \in DOMAIN users'[u].weakness_counts
                /\ users'[u].weakness_counts[c] = Counter(users[u], c) + T[c]
            /\ \A c \in (DOMAIN users[u].weakness_counts
                            \cup DOMAIN users'[u].weakness_counts) \ DOMAIN T :
                /\ c \in DOMAIN users[u].weakness_counts
                /\ c \in DOMAIN users'[u].weakness_counts
                /\ users'[u].weakness_counts[c] = users[u].weakness_counts[c]
            /\ \A v \in DOMAIN users \ {u} :
                users'[v].weakness_counts = users[v].weakness_counts
    ]_vars

\* C15 witness: the last accepted submission raised a counter the user
\* already had, the user keeps a non-zero counter of a category the tally
\* did not name, and another user has counters of their own
C15_Witness ==
    /\ store_response.status = 201
    /\ Len(typing_results) >= 2
    /\ LET last == typing_results[Len(typing_results)]
           u == last.user_id
           T == last.weaknesses
       IN  /\ store_response.user_id = u
           /\ \E c \in DOMAIN T : T[c] > 0 /\ users[u].weakness_counts[c] > T[c]
           /\ \E c \in DOMAIN users[u].weakness_counts \ DOMAIN T :
                users[u].weakness_counts[c] > 0
           /\ \E v \in DOMAIN users \ {u} : users[v].weakness_counts # EmptyDoc

\* C16: no stored profile has a counter of a category outside the taxonomy
\* (profiles start without counters, so a counter outside the taxonomy can
\* only come from a submission that named the category).
C16_UnknownCategoryIgnored ==
    \A u \in DOMAIN users : DOMAIN users[u].weakness_counts \subseteq TAXONOMY

\* C19: over every step, each counter a user has stays present and does not
\* get smaller.
C19_CountersNeverDecrease ==
    [][\A u \in DOMAIN users : \A c \in DOMAIN users[u].weakness_counts :
            /\ c \in DOMAIN users'[u].weakness_counts
            /\ users'[u].weakness_counts[c] >= users[u].weakness_counts[c]
    ]_vars

\* how the report shows a category: the severity of its entry, or "omitted"
Shown(report, c) ==
    LET entries == {i \in 1..Len(report.weaknesses) : report.weaknesses[i].type = c}
    IN  IF entries = {} THEN "omitted"
        ELSE report.weaknesses[CHOOSE i \in entries : TRUE].severity

\* C20: in every report a taxonomy category with cumulative count n is shown
\* as high iff n > 10, medium iff 5 < n <= 10, low iff 0 < n <= 5, and is
\* omitted iff n = 0.
C20_SeverityBands ==
    store_response.status = 200 =>
        \A c \in TAXONOMY \cap DOMAIN store_response.weakness_counts :
            LET n == store_response.weakness_counts[c]
                shown == Shown(store_response, c)
            IN  /\ shown = "high" <=> n > 10
                /\ shown = "medium" <=> (5 < n /\ n <= 10)
                /\ shown = "low" <=> (0 < n /\ n <= 5)
                /\ shown = "omitted" <=> n = 0

(***************************************************************************)
(* save_result served by several workers at once: each request is the      *)
(* three database operations of the handler, find_one, insert_one and      *)
(* update_one, and the operations of different requests interleave.  A     *)
(* request answered 404 or 400 performs no write and is left out here.     *)
(***************************************************************************)
\* the tallies of the requests served at once: none, one category with two
\* different counts, two categories
ConcurrentTallies ==
    {EmptyDoc,
     "missing_word_motions" :> 6,
     "missing_word_motions" :> 5,
     ("missing_word_motions" :> 6) @@ ("slow_basic_movement" :> 6)}

InFlight(w) == submissions[w].pc \in {"found", "inserted"}

\* find_one for the token's user, the required fields present: the worker
\* holds the document it read and the submitted tally
SubmitFind(w) ==
    /\ ~InFlight(w)
    /\ Len(typing_results) + Cardinality({v \in Workers : submissions[v].pc = "found"})
            < MaxResults
    /\ \E u \in DOMAIN users, t \in ConcurrentTallies :
        submissions' = [submissions EXCEPT ![w] =
            [pc |-> "found", user_id |-> u, weaknesses |-> t, read |-> users[u]]]
    /\ UNCHANGED <<users, typing_results, store_response>>
    /\ UNCHANGED <<engineVars, api_key, routeVars, sideVars>>

\* mongo.db.typing_results.insert_one(result)
SubmitInsert(w) ==
    /\ submissions[w].pc = "found"
    /\ typing_results' = Append(typing_results,
            ResultDoc(submissions[w].user_id, submissions[w].weaknesses))
    /\ submissions' = [submissions EXCEPT ![w].pc = "inserted"]
    /\ UNCHANGED <<users, store_response>>
    /\ UNCHANGED <<engineVars, api_key, routeVars, sideVars>>

\* mongo.db.users.update_one(..., {'$inc': ...}) and the 201 response; the
\* worker's record of the request stays until its next request
SubmitUpdate(w) ==
    /\ submissions[w].pc = "inserted"
    /\ LET u == submissions[w].user_id
       IN  /\ users' = [users EXCEPT ![u] =
                    UpdateUser(users[u], submissions[w].read, submissions[w].weaknesses)]
           /\ store_response' = [status |-> 201, user_id |-> u]
    /\ submissions' = [submissions EXCEPT ![w].pc = "done"]
    /\ UNCHANGED typing_results
    /\ UNCHANGED <<engineVars, api_key, routeVars, sideVars>>

NextConcurrent ==
    \E w \in Workers : SubmitFind(w) \/ SubmitInsert(w) \/ SubmitUpdate(w)

SpecConcurrent == InitStore /\ [][NextConcurrent]_vars

\* the sum of a category's counts over the stored results of a user
RECURSIVE SumOfResults(_, _, _)
SumOfResults(results, u, c) ==
    IF results = <<>> THEN 0
    ELSE LET r == Head(results)
         IN  (IF r.user_id = u /\ c \in DOMAIN r.weaknesses THEN r.weaknesses[c] ELSE 0)
             + SumOfResults(Tail(results), u, c)

\* every category a stored result or a stored profile names
NamedCategories ==
    UNION {DOMAIN typing_results[i].weaknesses : i \in 1..Len(typing_results)}
    \cup UNION {DOMAIN users[u].weakness_counts : u \in DOMAIN users}

Quiescent == \A w \in Workers : ~InFlight(w)

\* C17: once every submission in flight has completed, each counter of each
\* user is the sum of that category's counts over all the submissions of
\* that user, however their database operations interleaved (the counters
\* start absent, that is at 0).
C17_NoLostUpdate ==
    Quiescent =>
        \A u \in DOMAIN users : \A c \in NamedCategories :
            Counter(users[u], c) = SumOfResults(typing_results, u, c)

\* C17 witness: two workers read the same empty profile of one user, each
\* with a tally naming the same category, and both have completed
C17_Witness ==
    /\ Quiescent
    /\ \E w1, w2 \in Workers :
        /\ w1 # w2
        /\ submissions[w1].pc = "done" /\ submissions[w2].pc = "done"
        /\ submissions[w1].user_id = "u1" /\ submissions[w2].user_id = "u1"
        /\ submissions[w1].read.weakness_counts = EmptyDoc
        /\ submissions[w2].read.weakness_counts = EmptyDoc
        /\ submissions[w1].weaknesses = ("missing_word_motions" :> 6)
        /\ submissions[w2].weaknesses = ("missing_word_motions" :> 5)
        /\ users["u1"].weakness_counts["missing_word_motions"] = 11

(***************************************************************************)
(* Two users brought to the same profile by the same submission; then one  *)
(* submits a tally A and a tally B, the other the pointwise sum of A and   *)
(* B in a single submission.  Every step is an accepted save_result.       *)
(***************************************************************************)
\* A + B, category by category
PointwiseSum(A, B) ==
    [c \in DOMAIN A \cup DOMAIN B |->
        (IF c \in DOMAIN A THEN A[c] ELSE 0) + (IF c \in DOMAIN B THEN B[c] ELSE 0)]

\* u1 submits the tally that makes the common profile
SeedFirst ==
    /\ Len(typing_results) = 0
    /\ \E t \in Tallies : AcceptedSubmission("u1", t)
    /\ UNCHANGED submissions
    /\ UNCHANGED <<engineVars, api_key, routeVars, sideVars>>

\* u2 submits the same tally
SeedSecond ==
    /\ Len(typing_results) = 1
    /\ AcceptedSubmission("u2", typing_results[1].weaknesses)
    /\ UNCHANGED submissions
    /\ UNCHANGED <<engineVars, api_key, routeVars, sideVars>>

\* u1 submits A, then B
SubmitInTurn ==
    /\ Len(typing_results) \in {2, 3}
    /\ \E t \in Tallies : AcceptedSubmission("u1", t)
    /\ UNCHANGED submissions
    /\ UNCHANGED <<engineVars, api_key, routeVars, sideVars>>

\* u2 submits A + B
SubmitSum ==
    /\ Len(typing_results) = 4
    /\ AcceptedSubmission("u2",
            PointwiseSum(typing_results[3].weaknesses, typing_results[4].weaknesses))
    /\ UNCHANGED submissions
    /\ UNCHANGED <<engineVars, api_key, routeVars, sideVars>>

NextAssoc == SeedFirst \/ SeedSecond \/ SubmitInTurn \/ SubmitSum

SpecAssoc == InitStore /\ [][NextAssoc]_vars

\* C18: from the same profile, a submission of A followed by one of B leaves
\* the same cumulative counters as a single submission of A + B.
C18_AggregationAssociative ==
    Len(typing_results) = 5 =>
        users["u1"].weakness_counts = users["u2"].weakness_counts

\* C18 witness: a common profile with two counters, A and B that share a
\* category and each name one the other lacks, and the three submissions done
C18_Witness ==
    /\ Len(typing_results) = 5
    /\ typing_results[1].weaknesses
            = ("missing_word_motions" :> 6) @@ ("slow_basic_movement" :> 6)
    /\ typing_results[3].weaknesses = ("missing_word_motions" :> 6)
    /\ typing_results[4].weaknesses
            = ("missing_word_motions" :> 5) @@ ("future_category" :> 2)
    /\ typing_results[5].weaknesses
            = ("missing_word_motions" :> 11) @@ ("future_category" :> 2)
    /\ users["u2"].weakness_counts["missing_word_motions"] = 17

(***************************************************************************)
(* get_weaknesses over results that carry their mode and efficiency:       *)
(* avg_efficiency, total_vim_tests and trend of the response.  The two     *)
(* numbers are rounded to one decimal by the code and are held here as a   *)
(* number of tenths (856 is 85.6).                                         *)
(***************************************************************************)
\* most results stored in this part
MaxReportResults == 21
\* most stored results that are not plain ones
MaxVaried == 2

\* .limit(20)
RECENT_LIMIT == 20
\* "if len(recent_results) >= 5", recent_results[:5]
TREND_WINDOW == 5
\* recent_results[5:10]
TREND_SPAN == 10
\* data.get('efficiency', 100), r.get('efficiency', 100), "else 100"
DEFAULT_EFFICIENCY == 100
\* round(x, 1)
TENTHS == 10

\* the stored result document with the fields the report reads
ModeResultDoc(user_id, mode, efficiency, weaknesses) ==
    ResultDoc(user_id, weaknesses) @@ [mode |-> mode, efficiency |-> efficiency]

\* the plain submission: a vim test of u1 with the default efficiency and no
\* tally
PlainSubmission ==
    [user_id |-> "u1", mode |-> "vim", efficiency |-> DEFAULT_EFFICIENCY,
     weaknesses |-> EmptyDoc]

\* the other submissions: a less efficient vim test of u1 with a tally, a
\* code test of u1 with a tally, a vim test of u2
VariedSubmissions ==
    {[user_id |-> "u1", mode |-> "vim", efficiency |-> 60,
      weaknesses |-> ("missing_word_motions" :> 6)],
     [user_id |-> "u1", mode |-> "code", efficiency |-> 60,
      weaknesses |-> ("missing_word_motions" :> 6)],
     [user_id |-> "u2", mode |-> "vim", efficiency |-> 60,
      weaknesses |-> EmptyDoc]}

Varied(results) ==
    Cardinality({i \in 1..Len(results) : results[i].efficiency # DEFAULT_EFFICIENCY})

RECURSIVE Sum(_)
Sum(values) == IF values = <<>> THEN 0 ELSE Head(values) + Sum(Tail(values))

Reverse(s) == [i \in 1..Len(s) |-> s[Len(s) + 1 - i]]

\* find({'user_id': ..., 'mode': 'vim'}).sort('created_at', -1).limit(20)
\* without the limit
RecentResultsUnlimited(results, user_id) ==
    Reverse(SelectSeq(results, LAMBDA r : r.user_id = user_id /\ r.mode = "vim"))

\* the same without the filter on the mode
RecentResultsAnyMode(results, user_id) ==
    LET found == Reverse(SelectSeq(results, LAMBDA r : r.user_id = user_id))
    IN  SubSeq(found, 1, Min(RECENT_LIMIT, Len(found)))

\* find({'user_id': ..., 'mode': 'vim'}).sort('created_at', -1).limit(20):
\* the vim results of the user, newest first, at most 20
RecentResults(results, user_id) ==
    LET found == Reverse(SelectSeq(results,
                            LAMBDA r : r.user_id = user_id /\ r.mode = "vim"))
    IN  SubSeq(found, 1, Min(RECENT_LIMIT, Len(found)))

\* [r.get('efficiency', 100) for r in rs if 'efficiency' in r]; save_result
\* stores 'efficiency' in every result
EfficienciesOf(rs) == [i \in 1..Len(rs) |-> rs[i].efficiency]

\* round(num / den, 1) in tenths, den > 0: the nearest tenth, a value half
\* way between two tenths going to the even one
RoundTenths(num, den) ==
    LET scaled == TENTHS * num
        q == (2 * scaled + den) \div (2 * den)
        tie == (2 * scaled + den) % (2 * den) = 0
    IN  IF tie /\ q % 2 = 1 THEN q - 1 ELSE q

\* avg_efficiency = sum(efficiencies) / len(efficiencies) if efficiencies else 100
AvgEfficiency(rs) ==
    LET efficiencies == EfficienciesOf(rs)
    IN  IF efficiencies # <<>>
        THEN RoundTenths(Sum(efficiencies), Len(efficiencies))
        ELSE RoundTenths(DEFAULT_EFFICIENCY, 1)

\* the trend over the 5 newest against all the older ones
TrendAgainstAllOlder(rs) ==
    IF Len(rs) >= TREND_WINDOW
    THEN LET recent_5 == EfficienciesOf(SubSeq(rs, 1, TREND_WINDOW))
             older_5 == EfficienciesOf(SubSeq(rs, TREND_WINDOW + 1, Len(rs)))
         IN  IF recent_5 # <<>> /\ older_5 # <<>>
             THEN RoundTenths(Sum(recent_5) * Len(older_5) - Sum(older_5) * Len(recent_5),
                              Len(recent_5) * Len(older_5))
             ELSE 0
    ELSE 0

\* the "Get improvement trend" block: mean(recent_5) - mean(older_5)
Trend(rs) ==
    IF Len(rs) >= TREND_WINDOW
    THEN LET recent_5 == EfficienciesOf(SubSeq(rs, 1, TREND_WINDOW))
             older_5 == EfficienciesOf(SubSeq(rs, TREND_WINDOW + 1, Min(TREND_SPAN, Len(rs))))
         IN  IF recent_5 # <<>> /\ older_5 # <<>>
             THEN RoundTenths(Sum(recent_5) * Len(older_5) - Sum(older_5) * Len(recent_5),
                              Len(recent_5) * Len(older_5))
             ELSE 0
    ELSE 0

\* the whole 200 response of get_weaknesses
FullReport(user_id, counts, order, results) ==
    LET recent_results == RecentResults(results, user_id)
    IN  WeaknessReport(user_id, counts, order)
        @@ [avg_efficiency |-> AvgEfficiency(recent_results),
            total_vim_tests |-> Len(recent_results),
            trend |-> Trend(recent_results)]

\* save_result, accepted, for a submission with its mode and efficiency
SaveModeResult ==
    /\ Len(typing_results) < MaxReportResults
    /\ \E sub \in {PlainSubmission} \cup VariedSubmissions :
        /\ sub \in VariedSubmissions => Varied(typing_results) < MaxVaried
        /\ typing_results' = Append(typing_results,
                ModeResultDoc(sub.user_id, sub.mode, sub.efficiency, sub.weaknesses))
        /\ users' = [users EXCEPT ![sub.user_id] =
                UpdateUser(users[sub.user_id], users[sub.user_id], sub.weaknesses)]
        /\ store_response' = [status |-> 201, user_id |-> sub.user_id]
    /\ UNCHANGED submissions
    /\ UNCHANGED <<engineVars, api_key, routeVars, sideVars>>

\* get_weaknesses for a stored user, the whole response
GetFullWeaknesses ==
    /\ \E u \in DOMAIN users :
        \E order \in SortedWeaknesses(users[u].weakness_counts) :
            store_response' =
                FullReport(u, users[u].weakness_counts, order, typing_results)
    /\ UNCHANGED <<users, typing_results, submissions>>
    /\ UNCHANGED <<engineVars, api_key, routeVars, sideVars>>

NextReport == SaveModeResult \/ GetFullWeaknesses

SpecReport == InitStore /\ [][NextReport]_vars

(***************************************************************************)
(* Properties of avg_efficiency and trend in the weakness report.          *)
(***************************************************************************)
\* the response at hand is a whole weakness report
Reported == store_response.status = 200 /\ "trend" \in DOMAIN store_response

\* the efficiency values of the vim results of a user, newest first
VimHistory(u) ==
    LET own == SelectSeq(typing_results, LAMBDA r : r.user_id = u /\ r.mode = "vim")
    IN  [i \in 1..Len(own) |-> own[Len(own) + 1 - i].efficiency]

\* C21: the report for a user without vim results has average efficiency 0,
\* trend 0 and no weakness details.
C21_NoVimResultsReport ==
    (Reported /\ VimHistory(store_response.user_id) = <<>>) =>
        /\ store_response.avg_efficiency = 0
        /\ store_response.trend = 0
        /\ store_response.weaknesses = <<>>

\* C22: the report for a user with fewer than 10 vim results has trend 0.
C22_TrendNeedsTenResults ==
    (Reported /\ Len(VimHistory(store_response.user_id)) < 10) =>
        store_response.trend = 0

\* C23: the report for a user with at least 10 vim results has as trend the
\* mean of the 5 newest efficiency values minus the mean of the next 5; in
\* tenths that difference is 10 * (s1 / 5 - s2 / 5) = 2 * (s1 - s2).
C23_TrendOfTenNewest ==
    (Reported /\ Len(VimHistory(store_response.user_id)) >= 10) =>
        LET h == VimHistory(store_response.user_id)
        IN  store_response.trend = 2 * (Sum(SubSeq(h, 1, 5)) - Sum(SubSeq(h, 6, 10)))

\* C23 witness: a report over more than 10 vim results, the oldest of them,
\* past the 10th, less efficient than the others and one of the 5 next to
\* newest too: the trend is 100 - 92 = 8.0
C23_Witness ==
    /\ Reported
    /\ LET h == VimHistory(store_response.user_id)
       IN  /\ Len(h) > 10
           /\ h[Len(h)] = 60
           /\ \E i \in 6..10 : h[i] = 60
           /\ store_response.trend = 80

\* C26: the average efficiency of the report is the mean, to the nearest
\* tenth, of the efficiency values of the at most 20 newest vim results of
\* the requesting user, and the trend is, to the nearest tenth, the mean of
\* the 5 newest of those values minus the mean of the up to 5 next ones (0
\* when there are fewer than 6); no other stored result has a part in either.
C26_AverageOfTwentyNewest ==
    (Reported /\ VimHistory(store_response.user_id) # <<>>) =>
        LET h == VimHistory(store_response.user_id)
            w == SubSeq(h, 1, Min(20, Len(h)))
            n == Len(w)
            off == store_response.avg_efficiency * n - 10 * Sum(w)
        IN  /\ 2 * off <= n /\ 2 * off >= -n
            /\ store_response.total_vim_tests = n
            /\ IF n >= 6
               THEN LET older == SubSeq(w, 6, Min(10, n))
                        m == Len(older)
                        gap == store_response.trend * 5 * m
                                - 10 * (Sum(SubSeq(w, 1, 5)) * m - Sum(older) * 5)
                    IN  2 * gap <= 5 * m /\ 2 * gap >= -(5 * m)
               ELSE store_response.trend = 0

\* C26 witness: u1 has 21 vim results; the oldest, the only one that is less
\* efficient, is past the 20 newest, and the report gives 100.0 over 20 tests
C26_Witness ==
    /\ Reported
    /\ store_response.user_id = "u1"
    /\ LET h == VimHistory("u1")
       IN  /\ Len(h) = 21
           /\ h[21] = 60
           /\ \A i \in 1..20 : h[i] = 100
    /\ store_response.avg_efficiency = 1000
    /\ store_response.total_vim_tests = 20

\* the motion categories of the weight vector
MotionCategories ==
    {"basic", "word", "line", "find", "search", "paragraph", "document",
     "bracket", "count"}

\* the weakness categories that bear on a motion category
WeaknessesOf(motion) ==
    CASE motion = "basic" -> {"slow_basic_movement"}
      [] motion = "word" -> {"missing_word_motions"}
      [] motion = "line" -> {"missing_line_motions"}
      [] motion = "find" -> {"missing_find_motions"}
      [] motion = "paragraph" -> {"missing_paragraph_motions"}
      [] motion = "bracket" -> {"missing_bracket_matching"}
      [] motion = "count" -> {"missing_count_prefix"}
      [] OTHER -> {}

\* what a cumulative count adds to a weight
WeightBonus(n) == IF n > 10 THEN 3 ELSE IF n > 5 THEN 2 ELSE IF n > 2 THEN 1 ELSE 0

RECURSIVE BonusOver(_, _)
BonusOver(categories, counts) ==
    IF categories = {} THEN 0
    ELSE LET c == CHOOSE x \in categories : TRUE
         IN  (IF c \in DOMAIN counts THEN WeightBonus(counts[c]) ELSE 0)
             + BonusOver(categories \ {c}, counts)

\* C24: every weakness report carries a weight vector over the 9 motion
\* categories, each weight being 1 plus the bonus of the cumulative count of
\* every weakness category that bears on it (so at least 1, and 4 for "word"
\* at a missing_word_motions count of 12).
C24_ReportHasWeightVector ==
    Reported =>
        /\ "weight_vector" \in DOMAIN store_response
        /\ DOMAIN store_response.weight_vector = MotionCategories
        /\ \A m \in MotionCategories :
            store_response.weight_vector[m]
                = 1 + BonusOver(WeaknessesOf(m), store_response.weakness_counts)

(***************************************************************************)
(* The position catalog of the gap filling.                                *)
(***************************************************************************)
\* p comes before q by line, then by column
RowMajorBefore(p, q) == p[1] < q[1] \/ (p[1] = q[1] /\ p[2] < q[2])

\* C25: when the gap filling ran, its catalog all_positions holds exactly
\* the coordinates of the snippet's non-whitespace characters, in strictly
\* increasing row-major order (so each once), and the returned snippet is
\* the generator's, unchanged.
C25_CatalogRowMajor ==
    (Returned /\ IsChallenge /\ Len(validated) < target_count) =>
        LET all_positions == AllPositions(code_lines)
        IN  /\ {all_positions[i] : i \in 1..Len(all_positions)} = NonBlank
            /\ \A i, j \in 1..Len(all_positions) :
                i < j => RowMajorBefore(all_positions[i], all_positions[j])
            /\ result.code = payload.code
            /\ result.lines = code_lines
            /\ code_lines = SplitLines(payload.code)

\* C25 witness: the gap filling ran over the snippet "x x": the catalog is
\* (0, 0), (0, 2), without the blank at (0, 1)
C25_Witness ==
    /\ Returned /\ IsChallenge
    /\ Len(validated) < target_count
    /\ payload.code = <<"x", " ", "x">>
    /\ AllPositions(code_lines) = << <<0, 0>>, <<0, 2>> >>

\* C27: in every state, between the database operations of the requests in
\* progress too, each counter of each user is the sum of that category's
\* counts over the stored results of that user.
C27_CountersMatchResults ==
    \A u \in DOMAIN users : \A c \in NamedCategories :
        Counter(users[u], c) = SumOfResults(typing_results, u, c)

\* C28: a step that answers 400 (a required field is missing) or 404 (no
\* user record) leaves the stored results and every user document, counters
\* and tests_completed, as they were; a step that answers 201 appends
\* exactly one result, of the submitting user, and raises that user's
\* tests_completed by exactly 1 and no other user's.
C28_RejectedWritesNothing ==
    [][/\ store_response'.status \in {400, 404} =>
            /\ typing_results' = typing_results
            /\ users' = users
       /\ store_response'.status = 201 =>
            LET u == store_response'.user_id
            IN  /\ Len(typing_results') = Len(typing_results) + 1
                /\ SubSeq(typing_results', 1, Len(typing_results)) = typing_results
                /\ typing_results'[Len(typing_results')].user_id = u
                /\ users'[u].tests_completed = users[u].tests_completed + 1
                /\ \A v \in DOMAIN users \ {u} : users'[v] = users[v]
    ]_vars

\* C28 witness: a submission without a required field was rejected after an
\* accepted submission without tally and an accepted one with a tally of the
\* same user
C28_Witness ==
    /\ store_response.status = 400
    /\ Len(typing_results) = 2
    /\ typing_results[1].user_id = store_response.user_id
    /\ typing_results[2].user_id = store_response.user_id
    /\ typing_results[1].weaknesses = EmptyDoc
    /\ typing_results[2].weaknesses # EmptyDoc
    /\ users[store_response.user_id].tests_completed = 2

(***************************************************************************)
(* POST /api/typing/generate-practice-text (generate_practice_text): the   *)
(* start of the pipeline and the poll loop, one step per HTTP call.        *)
(***************************************************************************)
\* max_attempts = 30
max_attempts == 30

\* what requests.get(.../get_pl_run) can come back with: an exception, a
\* status other than 200, or 200 with a state and, when DONE, an output
PollResults ==
    {[kind |-> "raised"],
     [kind |-> "response", status_code |-> 500],
     [kind |-> "response", status_code |-> 200, state |-> "RUNNING"],
     [kind |-> "response", status_code |-> 200, state |-> "FAILED"],
     [kind |-> "response", status_code |-> 200, state |-> "DONE", output |-> "the text"],
     [kind |-> "response", status_code |-> 200, state |-> "DONE", output |-> ""]}

\* what requests.post(.../start_pipeline) can come back with
StartResults ==
    {[kind |-> "raised"],
     [kind |-> "response", status_code |-> 500],
     [kind |-> "response", status_code |-> 200, run_id |-> ""],
     [kind |-> "response", status_code |-> 200, run_id |-> "run1"]}

\* the loop body never ending the request on a FAILED run
PollAnswerIgnoresFailed(poll) ==
    IF poll.kind = "raised" THEN [status |-> 500, error |-> "str(e)"]
    ELSE IF poll.status_code # 200 THEN [status |-> 0]
    ELSE IF poll.state = "DONE"
         THEN IF poll.output # ""
              THEN [status |-> 200, practice_text |-> poll.output]
              ELSE [status |-> 500, error |-> "No practice text generated"]
    ELSE [status |-> 0]

\* one pass of the loop body: the response it returns, or status 0 when the
\* loop goes on to the next attempt
PollAnswer(poll) ==
    IF poll.kind = "raised" THEN [status |-> 500, error |-> "str(e)"]
    ELSE IF poll.status_code # 200 THEN [status |-> 0]
    ELSE IF poll.state = "DONE"
         THEN IF poll.output # ""
              THEN [status |-> 200, practice_text |-> poll.output]
              ELSE [status |-> 500, error |-> "No practice text generated"]
    ELSE IF poll.state = "FAILED"
         THEN [status |-> 500, error |-> "Practice text generation failed"]
    ELSE [status |-> 0]

\* "if not data": no analytics in the body
PracticeNoData ==
    /\ practice_pc = "idle"
    /\ practice_pc' = "answered"
    /\ practice_response' = [status |-> 400, error |-> "No analytics data provided"]
    /\ UNCHANGED <<attempt, last_poll>>
    /\ UNCHANGED <<engineVars, api_key, routeVars, storeVars, authVars>>

\* the start of the pipeline: an exception, a status other than 200 or a
\* missing run id answer 500; otherwise the poll loop begins
PracticeStart ==
    /\ practice_pc = "idle"
    /\ \E start \in StartResults :
        IF start.kind = "raised"
        THEN /\ practice_pc' = "answered"
             /\ practice_response' = [status |-> 500, error |-> "str(e)"]
        ELSE IF start.status_code # 200
        THEN /\ practice_pc' = "answered"
             /\ practice_response' =
                    [status |-> 500, error |-> "Failed to start practice text generation"]
        ELSE IF start.run_id = ""
        THEN /\ practice_pc' = "answered"
             /\ practice_response' =
                    [status |-> 500, error |-> "No run ID returned from Gumloop"]
        ELSE /\ practice_pc' = "polling"
             /\ UNCHANGED practice_response
    /\ UNCHANGED <<attempt, last_poll>>
    /\ UNCHANGED <<engineVars, api_key, routeVars, storeVars, authVars>>

\* one iteration of "for attempt in range(max_attempts)"
PracticePoll ==
    /\ practice_pc = "polling"
    /\ attempt < max_attempts
    /\ \E poll \in PollResults :
        /\ attempt' = attempt + 1
        /\ last_poll' = poll
        /\ IF PollAnswer(poll).status # 0
           THEN /\ practice_pc' = "answered"
                /\ practice_response' = PollAnswer(poll)
           ELSE UNCHANGED <<practice_pc, practice_response>>
    /\ UNCHANGED <<engineVars, api_key, routeVars, storeVars, authVars>>

\* the loop ran out: 504
PracticeTimeout ==
    /\ practice_pc = "polling"
    /\ attempt >= max_attempts
    /\ practice_pc' = "answered"
    /\ practice_response' =
            [status |-> 504, error |-> "Timeout waiting for practice text generation"]
    /\ UNCHANGED <<attempt, last_poll>>
    /\ UNCHANGED <<engineVars, api_key, routeVars, storeVars, authVars>>

NextPractice == PracticeNoData \/ PracticeStart \/ PracticePoll \/ PracticeTimeout

SpecPractice == InitStore /\ [][NextPractice]_vars

\* every HTTP call returns or raises, and the handler then goes on
FairSpecPractice == SpecPractice /\ WF_vars(NextPractice)

\* the poll reported a finished run
ReportsTerminal(poll) ==
    /\ poll.kind = "response"
    /\ poll.status_code = 200
    /\ poll.state \in {"DONE", "FAILED"}

Usernames == {"ann", "bob"}
Emails == {"a@x.io", "b@x.io"}

InitAuth ==
    /\ RouteInit
    /\ StoreInit
    /\ PracticeInit
    /\ AccountsInit
    /\ unique_index \in BOOLEAN
    /\ api_key = TRUE
    /\ EngineInit

\* find_one({'username': username}) / find_one({'email': email}) finds one
UsernameStored(username) == \E i \in 1..Len(accounts) : accounts[i].username = username
EmailStored(email) == \E i \in 1..Len(accounts) : accounts[i].email = email

\* insert_one raises DuplicateKeyError: a unique index exists and the
\* username or the email is already stored
InsertRefused(username, email) ==
    unique_index /\ (UsernameStored(username) \/ EmailStored(email))

Answered(w, status, error) ==
    registrations' = [registrations EXCEPT ![w] =
        [pc |-> "done", username |-> registrations[w].username,
         email |-> registrations[w].email, status |-> status, error |-> error]]

\* no body, a missing field, a username or password of the wrong length: 400
RegisterInvalid(w) ==
    /\ registrations[w].pc = "idle"
    /\ registrations' = [registrations EXCEPT ![w] =
            [pc |-> "done", username |-> "", email |-> "", status |-> 400,
             error |-> "Missing required fields"]]
    /\ UNCHANGED <<accounts, unique_index>>
    /\ UNCHANGED <<engineVars, api_key, routeVars, storeVars, practiceVars>>

\* a valid body; "if mongo.db.users.find_one({'username': username})"
RegisterFindUsername(w) ==
    /\ registrations[w].pc = "idle"
    /\ \E username \in Usernames, email \in Emails :
        registrations' = [registrations EXCEPT ![w] =
            IF UsernameStored(username)
            THEN [pc |-> "done", username |-> username, email |-> email,
                  status |-> 409, error |-> "Username already exists"]
            ELSE [pc |-> "username_free", username |-> username, email |-> email]]
    /\ UNCHANGED <<accounts, unique_index>>
    /\ UNCHANGED <<engineVars, api_key, routeVars, storeVars, practiceVars>>

\* "if mongo.db.users.find_one({'email': email})"
RegisterFindEmail(w) ==
    /\ registrations[w].pc = "username_free"
    /\ IF EmailStored(registrations[w].email)
       THEN Answered(w, 409, "Email already registered")
       ELSE registrations' = [registrations EXCEPT ![w].pc = "email_free"]
    /\ UNCHANGED <<accounts, unique_index>>
    /\ UNCHANGED <<engineVars, api_key, routeVars, storeVars, practiceVars>>

\* mongo.db.users.insert_one(user) and the 201 response; the handler does
\* not catch DuplicateKeyError, which the framework answers with 500
RegisterInsert(w) ==
    /\ registrations[w].pc = "email_free"
    /\ IF InsertRefused(registrations[w].username, registrations[w].email)
       THEN /\ Answered(w, 500, "DuplicateKeyError")
            /\ UNCHANGED accounts
       ELSE /\ accounts' = Append(accounts,
                    [username |-> registrations[w].username,
                     email |-> registrations[w].email])
            /\ Answered(w, 201, "")
    /\ UNCHANGED unique_index
    /\ UNCHANGED <<engineVars, api_key, routeVars, storeVars, practiceVars>>

NextAuth ==
    \E w \in Workers :
        \/ RegisterInvalid(w)
        \/ RegisterFindUsername(w)
        \/ RegisterFindEmail(w)
        \/ RegisterInsert(w)

SpecAuth == InitAuth /\ [][NextAuth]_vars

\* C30: no two stored accounts share a username or an email, and of the
\* answered registrations for one username at most one was accepted and
\* every other one got a 409 'already exists' / 'already registered' error.
C30_NoDuplicateAccounts ==
    /\ \A i, j \in 1..Len(accounts) :
        i # j => /\ accounts[i].username # accounts[j].username
                 /\ accounts[i].email # accounts[j].email
    /\ \A w1, w2 \in Workers :
        (/\ w1 # w2
         /\ registrations[w1].pc = "done" /\ registrations[w2].pc = "done"
         /\ registrations[w1].username \in Usernames
         /\ registrations[w1].username = registrations[w2].username
         /\ registrations[w1].status = 201)
            => /\ registrations[w2].status = 409
               /\ registrations[w2].error
                    \in {"Username already exists", "Email already registered"}

====
